---------------------------- MODULE Spec2Model ----------------------------
(***************************************************************************)
(* A model of python/ray/data/datasource/webdataset_datasource.py:         *)
(*   base_plus_ext   the split of an entry name into (prefix, suffix),     *)
(*   valid_sample    the validity gate of the grouper,                     *)
(*   group_by_keys   the generator that groups entries into samples,       *)
(*   table_to_list / WebDatasetDatasource._write_block   the encoder.      *)
(*                                                                         *)
(* Python str and bytes values are sequences of one-character strings      *)
(* (a byte outside ASCII is a two-hex-digit token).  A dict is a function  *)
(* whose domain is the set of its keys; dict values carry their Python     *)
(* type in the field t.                                                    *)
(***************************************************************************)
EXTENDS Integers, Sequences, FiniteSets, TLC

VARIABLES
    \* ---- base_plus_ext on its own
    path,            \* the argument of base_plus_ext
    match,           \* its result, NotCalled before the call
    \* ---- group_by_keys (one generator object)
    lcase,           \* parameter lcase
    suffixes,        \* parameter suffixes: NoSuffixes (None) or a set of names
    live,            \* TRUE: upstream is an iterator whose entries are not yet known
    data,            \* the entries upstream has delivered, or will deliver (live = FALSE)
    pos,             \* how many entries the for loop has pulled from upstream
    heap,            \* the dict objects created so far: heap[id] is the dict's content
    current_sample,  \* local current_sample: 0 (None) or the id of a dict
    out,             \* the ids of the dicts yielded to the consumer, in order
    gpc,             \* where the generator stands
    \* ---- _write_block
    table,           \* block.to_arrow(): [column_names, rows]
    samples,         \* local samples (the list of row dicts); <<>> before the call
    si,              \* index of the sample the outer loop is at
    fi,              \* index, in sample.items(), of the item the inner loop is at
    stream,          \* the entries handed to stream.addfile, in order
    uuids,           \* how many uuid4() values were drawn
    epc              \* where _write_block stands

vars == <<path, match, lcase, suffixes, live, data, pos, heap, current_sample,
          out, gpc, table, samples, si, fi, stream, uuids, epc>>

splitVars == <<path, match>>
decodeVars == <<lcase, suffixes, live, data, pos, heap, current_sample, out, gpc>>
encodeVars == <<table, samples, si, fi, stream, uuids, epc>>

-----------------------------------------------------------------------------
(* Bounds of the model *)

\* longest name given to base_plus_ext on its own
MaxPathLen == 5

\* most entries a live upstream delivers to group_by_keys
MaxEntries == 3

\* most rows of the table given to _write_block
MaxRows == 3

-----------------------------------------------------------------------------
(* Python values *)

\* Python's None where a str is expected: no str is this sequence, because
\* every str is a sequence of one-character strings
None == <<"None">>

Bytes(b) == [t |-> "bytes", v |-> b]

Str(s) == [t |-> "str", v |-> s]

NoneValue == [t |-> "NoneType", v |-> <<>>]

IntValue(digits) == [t |-> "int", v |-> digits]

\* dict(d, k=v) / d[k] = v
DictSet(d, k, v) == [x \in (DOMAIN d) \cup {k} |-> IF x = k THEN v ELSE d[x]]

\* bool(v) for the values a sample holds: an empty str or bytes and None are falsy
Truthy(v) == IF v.t \in {"bytes", "str"} THEN v.v # <<>> ELSE v.t # "NoneType"

\* d.get(k, False) taken as a truth value
GetTruthy(d, k) == IF k \in DOMAIN d THEN Truthy(d[k]) ELSE FALSE

UpperCase == <<"A", "B", "C", "D", "E", "F", "G", "H", "I", "J", "K", "L", "M",
               "N", "O", "P", "Q", "R", "S", "T", "U", "V", "W", "X", "Y", "Z">>

LowerCase == <<"a", "b", "c", "d", "e", "f", "g", "h", "i", "j", "k", "l", "m",
               "n", "o", "p", "q", "r", "s", "t", "u", "v", "w", "x", "y", "z">>

LowerChar(c) ==
    IF \E i \in 1..26 : UpperCase[i] = c
    THEN LowerCase[CHOOSE i \in 1..26 : UpperCase[i] = c]
    ELSE c

\* str.lower()
Lower(s) == [i \in 1..Len(s) |-> LowerChar(s[i])]

\* s.startswith(p)
StartsWith(s, p) == Len(s) >= Len(p) /\ SubSeq(s, 1, Len(p)) = p

\* str.encode to UTF-8: a code point below U+0080 is one byte, the code point
\* U+00E9 (written E9) is the two bytes C3 A9
Utf8Char(c) == IF c = "E9" THEN <<"C3", "A9">> ELSE <<c>>

RECURSIVE Utf8(_)
Utf8(s) == IF s = <<>> THEN <<>> ELSE Utf8Char(Head(s)) \o Utf8(Tail(s))

-----------------------------------------------------------------------------
\* base_plus_ext: re.match of the pattern  ^((?:.*/|)[^.]+)[.]([^/]*)$  on path

\* no character of s[lo..hi] is c
NoChar(s, lo, hi, c) == \A k \in lo..hi : s[k] # c

\* where the first alternative `.*/` can end: at a slash with no newline
\* before it (`.` does not match a newline)
DirEnds(s) == {i \in 1..Len(s) : s[i] = "/" /\ NoChar(s, 1, i - 1, "\n")}

\* `[^.]+[.]` from position b: the position of the dot that ends the run of
\* non-dot characters starting at b, 0 when there is none or the run is empty
DotAfter(s, b) ==
    LET dots == {k \in b..Len(s) : s[k] = "."}
    IN  IF dots = {} THEN 0
        ELSE LET j == CHOOSE k \in dots : \A m \in dots : k <= m
             IN  IF j > b THEN j ELSE 0

\* `[^/]*$` from position j + 1: the rest holds no slash
RestMatches(s, j) == NoChar(s, j + 1, Len(s), "/")

\* the whole pattern with group 1 starting its `[^.]+` at position b
MatchesFrom(s, b) == DotAfter(s, b) # 0 /\ RestMatches(s, DotAfter(s, b))

\* groups that keep the dot with the extension, as os.path.splitext does
SplitAtKeepingDot(s, j) ==
    [prefix |-> SubSeq(s, 1, j - 1), suffix |-> SubSeq(s, j, Len(s))]

SplitAt(s, j) == [prefix |-> SubSeq(s, 1, j - 1), suffix |-> SubSeq(s, j + 1, Len(s))]

NoMatch == [prefix |-> None, suffix |-> None]

\* a split at the last dot of the name: what the pattern  ^(.*)[.]([^/.]*)$
\* would give
base_plus_ext_last_dot(s) ==
    LET dots == {k \in 2..Len(s) : s[k] = "." /\ RestMatches(s, k)}
    IN  IF dots = {} THEN NoMatch
        ELSE SplitAt(s, CHOOSE k \in dots : \A m \in dots : k >= m)

\* the pattern with `[^.]*` for `[^.]+`: the run of non-dot characters may be
\* empty
base_plus_ext_empty_base(s) ==
    LET dotFrom(b) == LET dots == {k \in b..Len(s) : s[k] = "."}
                      IN  IF dots = {} THEN 0
                          ELSE CHOOSE k \in dots : \A m \in dots : k <= m
        matches(b) == dotFrom(b) # 0 /\ RestMatches(s, dotFrom(b))
        ends == {i \in DirEnds(s) : matches(i + 1)}
    IN  IF ends # {}
        THEN SplitAt(s, dotFrom(1 + CHOOSE i \in ends : \A m \in ends : i >= m))
        ELSE IF matches(1) THEN SplitAt(s, dotFrom(1)) ELSE NoMatch

\* the backtracking order of re: the alternative `.*/` first, greedy (the
\* last slash first), then the empty alternative
base_plus_ext(s) ==
    LET ends == {i \in DirEnds(s) : MatchesFrom(s, i + 1)}
    IN  IF ends # {}
        THEN SplitAt(s, DotAfter(s, 1 + CHOOSE i \in ends : \A m \in ends : i >= m))
        ELSE IF MatchesFrom(s, 1)
             THEN SplitAt(s, DotAfter(s, 1))
             ELSE NoMatch

-----------------------------------------------------------------------------
(* States in which a component has not been called *)

NotCalled == [prefix |-> <<"NotCalled">>, suffix |-> <<"NotCalled">>]

NoSuffixes == {None}

EmptyTable == [column_names |-> <<>>, rows |-> <<>>]

SplitIdle == path = <<>> /\ match = NotCalled

DecodeIdle ==
    /\ lcase = TRUE /\ suffixes = NoSuffixes /\ live = FALSE /\ data = <<>>
    /\ pos = 0 /\ heap = <<>> /\ current_sample = 0 /\ out = <<>> /\ gpc = "idle"

EncodeIdle ==
    /\ table = EmptyTable /\ samples = <<>> /\ si = 0 /\ fi = 0
    /\ stream = <<>> /\ uuids = 0 /\ epc = "idle"

-----------------------------------------------------------------------------
(* base_plus_ext on every name up to MaxPathLen characters *)

PathAlphabet == {"a", "b", "c", ".", "/", "\n"}

Paths == UNION {[1..n -> PathAlphabet] : n \in 0..MaxPathLen}

InitSplit == path \in Paths /\ match = NotCalled /\ DecodeIdle /\ EncodeIdle

CallSplit ==
    /\ match = NotCalled
    /\ match' = base_plus_ext(path)
    /\ UNCHANGED <<path, decodeVars, encodeVars>>

NextSplit == CallSplit

SpecSplit == InitSplit /\ [][NextSplit]_vars

\* where the final path segment of s starts
FinalSegmentStart(s) ==
    LET slashes == {k \in 1..Len(s) : s[k] = "/"}
    IN  IF slashes = {} THEN 1
        ELSE 1 + CHOOSE k \in slashes : \A m \in slashes : k >= m

\* the positions of the dots of the final path segment of s
FinalSegmentDots(s) == {k \in FinalSegmentStart(s)..Len(s) : s[k] = "."}

MinOf(S) == CHOOSE k \in S : \A m \in S : k <= m

MaxOf(S) == CHOOSE k \in S : \A m \in S : k >= m

\* C8 as stated: for every name whose final path segment contains a dot
\* (and that base_plus_ext splits at all), base_plus_ext returns the
\* characters after the LAST dot as extension and everything before that dot
\* as prefix.
C8_SplitsAtLastDot ==
    (match \notin {NotCalled, NoMatch} /\ FinalSegmentDots(path) # {}) =>
        match = SplitAt(path, MaxOf(FinalSegmentDots(path)))

\* C8 amended: whenever base_plus_ext splits a name, the extension is
\* everything after the FIRST dot of the final path segment (all the
\* extensions) and the prefix everything before that dot; and it splits every
\* newline-free name whose final segment has a dot that is not its first
\* character.
C8_SplitsAtFirstDot ==
    match # NotCalled =>
        /\ match # NoMatch =>
              /\ FinalSegmentDots(path) # {}
              /\ match = SplitAt(path, MinOf(FinalSegmentDots(path)))
        /\ ( /\ NoChar(path, 1, Len(path), "\n")
             /\ FinalSegmentDots(path) # {}
             /\ MinOf(FinalSegmentDots(path)) > FinalSegmentStart(path) )
           => match # NoMatch

\* the name a.b.c was split into the prefix a and the extension b.c
C8_Witness ==
    /\ path = <<"a", ".", "b", ".", "c">>
    /\ match = [prefix |-> <<"a">>, suffix |-> <<"b", ".", "c">>]

-----------------------------------------------------------------------------
(* valid_sample and group_by_keys *)

KEY == <<"_", "_", "k", "e", "y", "_", "_">>

URL == <<"_", "_", "u", "r", "l", "_", "_">>

BAD == <<"_", "_", "b", "a", "d", "_", "_">>

\* the object a local names: None (id 0) or the dict with that id
Deref(h, id) ==
    IF id = 0 THEN [isNone |-> TRUE, dict |-> <<>>]
    ELSE [isNone |-> FALSE, dict |-> h[id]]

\* a validity gate that forgets the __bad__ marker
valid_sample_ignoring_bad(sample) ==
    /\ ~sample.isNone
    /\ Cardinality(DOMAIN sample.dict) > 0

valid_sample(sample) ==
    /\ ~sample.isNone
    /\ Cardinality(DOMAIN sample.dict) > 0
    /\ ~GetTruthy(sample.dict, BAD)

\* a filesample: dict(fname=fname, data=data, **meta), meta being empty or
\* holding __url__
Entry(fname, payload, has_url, url) ==
    [fname |-> fname, data |-> payload, has_url |-> has_url, url |-> url]

\* a line 89 that keeps the case of the extension
NormalizedSuffixKeepingCase(suffix) == suffix

\* lines 88-89
NormalizedSuffix(suffix) == IF lcase THEN Lower(suffix) ELSE suffix

\* a line 90 without the comparison of the prefix: only the first entry starts
\* a sample
StartsNewSampleOnlyFirst(h, cur, prefix) == cur = 0

\* a line 90 that compares nothing: every entry starts a sample
StartsNewSampleAlways(h, cur, prefix) == TRUE

\* line 90
StartsNewSample(h, cur, prefix) == IF cur = 0 THEN TRUE ELSE prefix # h[cur][KEY].v

\* lines 93-95 with the dict kept when there is one: the sample is reset in
\* place instead of being replaced
NewSampleInPlace(h, e, prefix) ==
    LET d == IF e.has_url
             THEN [x \in {KEY, URL} |-> IF x = KEY THEN Str(prefix) ELSE Str(e.url)]
             ELSE [x \in {KEY} |-> Str(prefix)]
    IN  IF current_sample = 0 THEN Append(h, d) ELSE [h EXCEPT ![current_sample] = d]

\* lines 93-95: the heap with the new dict
NewSample(h, e, prefix) ==
    Append(h, IF e.has_url
              THEN [x \in {KEY, URL} |-> IF x = KEY THEN Str(prefix) ELSE Str(e.url)]
              ELSE [x \in {KEY} |-> Str(prefix)])

\* lines 96-101 that overwrite a field instead of raising
AccumulateOverwriting(h, cur, e, suffix) ==
    IF suffixes = NoSuffixes \/ suffix \in suffixes
    THEN [raise |-> FALSE, heap |-> [h EXCEPT ![cur] = DictSet(@, suffix, Bytes(e.data))]]
    ELSE [raise |-> FALSE, heap |-> h]

\* lines 96-101 without the allow-list
AccumulateUnfiltered(h, cur, e, suffix) ==
    IF suffix \in DOMAIN h[cur]
    THEN [raise |-> TRUE, heap |-> h]
    ELSE [raise |-> FALSE, heap |-> [h EXCEPT ![cur] = DictSet(@, suffix, Bytes(e.data))]]

\* lines 96-101 with lines 94-95 run for every entry: each entry puts its
\* own __url__ into the sample
AccumulateRefreshingUrl(h, cur, e, suffix) ==
    LET g == IF e.has_url THEN [h EXCEPT ![cur] = DictSet(@, URL, Str(e.url))] ELSE h
    IN  IF suffix \in DOMAIN h[cur]
        THEN [raise |-> TRUE, heap |-> h]
        ELSE IF suffixes = NoSuffixes \/ suffix \in suffixes
             THEN [raise |-> FALSE,
                   heap |-> [g EXCEPT ![cur] = DictSet(@, suffix, Bytes(e.data))]]
             ELSE [raise |-> FALSE, heap |-> g]

\* lines 96-101: raise, or the heap with the field recorded or dropped
Accumulate(h, cur, e, suffix) ==
    IF suffix \in DOMAIN h[cur]
    THEN [raise |-> TRUE, heap |-> h]
    ELSE IF suffixes = NoSuffixes \/ suffix \in suffixes
         THEN [raise |-> FALSE, heap |-> [h EXCEPT ![cur] = DictSet(@, suffix, Bytes(e.data))]]
         ELSE [raise |-> FALSE, heap |-> h]

\* lines 96-101 on the in-progress sample cur, for the entry e
AccumulateStep(h, cur, e) ==
    LET r == Accumulate(h, cur, e, NormalizedSuffix(base_plus_ext(e.fname).suffix))
    IN  /\ heap' = r.heap
        /\ current_sample' = cur
        /\ gpc' = IF r.raise THEN "error" ELSE "loop"

\* the upstream iterator: the entries it may deliver next
Upstream(Es) ==
    IF live THEN (IF Len(data) < MaxEntries THEN Es ELSE {})
    ELSE (IF pos < Len(data) THEN {data[pos + 1]} ELSE {})

\* the for loop pulls e
Pull(e) ==
    /\ data' = (IF live THEN Append(data, e) ELSE data)
    /\ pos' = pos + 1

\* the names, payloads and source ids of the entries a live upstream delivers
Name(stem, ext) == stem \o <<".">> \o ext

JPG == <<"j", "p", "g">>

CLS == <<"c", "l", "s">>

LiveEntries ==
    { Entry(Name(<<"a">>, JPG), <<"5">>, TRUE, <<"u">>),
      Entry(Name(<<"a">>, <<"J", "P", "G">>), <<"6">>, TRUE, <<"u">>),
      Entry(Name(<<"a">>, CLS), <<"7">>, TRUE, <<"v">>),
      Entry(Name(<<"b">>, JPG), <<"8">>, TRUE, <<"u">>),
      Entry(<<"a">>, <<"9">>, TRUE, <<"u">>),
      Entry(Name(<<"a">>, BAD), <<"1">>, TRUE, <<"u">>),
      Entry(Name(<<"a">>, BAD), <<>>, TRUE, <<"u">>),
      Entry(Name(<<"a">>, KEY), <<"2">>, TRUE, <<"u">>),
      Entry(Name(<<"a">>, URL), <<"3">>, FALSE, <<>>),
      Entry(Name(<<"a">>, JPG), <<"5">>, FALSE, <<>>),
      Entry(Name(<<"b">>, CLS), <<"4">>, FALSE, <<>>) }

SuffixChoices == {NoSuffixes, {JPG}}

\* the first next(): line 75
Start ==
    /\ gpc = "created"
    /\ current_sample' = 0
    /\ gpc' = "loop"
    /\ UNCHANGED <<lcase, suffixes, live, data, pos, heap, out>>
    /\ UNCHANGED <<splitVars, encodeVars>>

\* lines 76-87 with the sample in progress forgotten at an entry whose name
\* does not split
SkipEntrySealing ==
    /\ gpc = "loop"
    /\ \E e \in Upstream(LiveEntries) :
          /\ base_plus_ext(e.fname).prefix = None
          /\ Pull(e)
    /\ current_sample' = 0
    /\ UNCHANGED <<lcase, suffixes, live, heap, out, gpc>>
    /\ UNCHANGED <<splitVars, encodeVars>>

\* lines 76-87: an entry whose name does not split is skipped
SkipEntry ==
    /\ gpc = "loop"
    /\ \E e \in Upstream(LiveEntries) :
          /\ base_plus_ext(e.fname).prefix = None
          /\ Pull(e)
    /\ UNCHANGED <<lcase, suffixes, live, heap, current_sample, out, gpc>>
    /\ UNCHANGED <<splitVars, encodeVars>>

\* lines 76-101 with the yield of line 92 replaced by an append to a list:
\* the sample is handed over and the loop goes on without being asked
SealAndContinue ==
    /\ gpc = "loop"
    /\ \E e \in Upstream(LiveEntries) :
          LET prefix == base_plus_ext(e.fname).prefix
          IN  /\ prefix # None
              /\ StartsNewSample(heap, current_sample, prefix)
              /\ valid_sample(Deref(heap, current_sample))
              /\ Pull(e)
              /\ AccumulateStep(NewSample(heap, e, prefix), Len(heap) + 1, e)
    /\ out' = Append(out, current_sample)
    /\ UNCHANGED <<lcase, suffixes, live>>
    /\ UNCHANGED <<splitVars, encodeVars>>

\* lines 76-92: the entry starts a new sample and the sample in progress is
\* valid: the generator yields it and is suspended at line 92
SealAndYield ==
    /\ gpc = "loop"
    /\ \E e \in Upstream(LiveEntries) :
          LET prefix == base_plus_ext(e.fname).prefix
          IN  /\ prefix # None
              /\ StartsNewSample(heap, current_sample, prefix)
              /\ valid_sample(Deref(heap, current_sample))
              /\ Pull(e)
    /\ out' = Append(out, current_sample)
    /\ gpc' = "yield92"
    /\ UNCHANGED <<lcase, suffixes, live, heap, current_sample>>
    /\ UNCHANGED <<splitVars, encodeVars>>

\* lines 76-101: the entry starts a new sample and there is nothing valid to
\* yield
StartSample ==
    /\ gpc = "loop"
    /\ \E e \in Upstream(LiveEntries) :
          LET prefix == base_plus_ext(e.fname).prefix
          IN  /\ prefix # None
              /\ StartsNewSample(heap, current_sample, prefix)
              /\ ~valid_sample(Deref(heap, current_sample))
              /\ Pull(e)
              /\ AccumulateStep(NewSample(heap, e, prefix), Len(heap) + 1, e)
    /\ UNCHANGED <<lcase, suffixes, live, out>>
    /\ UNCHANGED <<splitVars, encodeVars>>

\* lines 76-101: the entry belongs to the sample in progress
AddField ==
    /\ gpc = "loop"
    /\ \E e \in Upstream(LiveEntries) :
          LET prefix == base_plus_ext(e.fname).prefix
          IN  /\ prefix # None
              /\ ~StartsNewSample(heap, current_sample, prefix)
              /\ Pull(e)
              /\ AccumulateStep(heap, current_sample, e)
    /\ UNCHANGED <<lcase, suffixes, live, out>>
    /\ UNCHANGED <<splitVars, encodeVars>>

\* next() on the generator suspended at line 92, with line 93 emptying and
\* refilling the dict it has instead of making a new one
ResumeAfterYieldInPlace ==
    /\ gpc = "yield92"
    /\ LET e == data[pos]
       IN  AccumulateStep(NewSampleInPlace(heap, e, base_plus_ext(e.fname).prefix),
                          current_sample, e)
    /\ UNCHANGED <<lcase, suffixes, live, data, pos, out>>
    /\ UNCHANGED <<splitVars, encodeVars>>

\* next() on the generator suspended at line 92: lines 93-101 for the entry
\* that sealed the yielded sample
ResumeAfterYield ==
    /\ gpc = "yield92"
    /\ LET e == data[pos]
       IN  AccumulateStep(NewSample(heap, e, base_plus_ext(e.fname).prefix),
                          Len(heap) + 1, e)
    /\ UNCHANGED <<lcase, suffixes, live, data, pos, out>>
    /\ UNCHANGED <<splitVars, encodeVars>>

\* upstream is exhausted, lines 102-103: the last sample is yielded if valid
EndOfInput ==
    /\ gpc = "loop"
    /\ live \/ pos = Len(data)
    /\ IF valid_sample(Deref(heap, current_sample))
       THEN out' = Append(out, current_sample) /\ gpc' = "yield103"
       ELSE out' = out /\ gpc' = "done"
    /\ UNCHANGED <<lcase, suffixes, live, data, pos, heap, current_sample>>
    /\ UNCHANGED <<splitVars, encodeVars>>

\* next() on the generator suspended at line 103: it returns
Finish ==
    /\ gpc = "yield103"
    /\ gpc' = "done"
    /\ UNCHANGED <<lcase, suffixes, live, data, pos, heap, current_sample, out>>
    /\ UNCHANGED <<splitVars, encodeVars>>

NextDecode ==
    \/ Start
    \/ SkipEntry
    \/ SealAndYield
    \/ StartSample
    \/ AddField
    \/ ResumeAfterYield
    \/ EndOfInput
    \/ Finish

InitDecode ==
    /\ SplitIdle /\ EncodeIdle
    /\ lcase \in BOOLEAN
    /\ suffixes \in SuffixChoices
    /\ live = TRUE
    /\ data = <<>> /\ pos = 0 /\ heap = <<>> /\ current_sample = 0 /\ out = <<>>
    /\ gpc = "created"

SpecDecode == InitDecode /\ [][NextDecode]_vars

-----------------------------------------------------------------------------
(* What the grouper is expected to emit, stated over the whole entry       *)
(* sequence: the maximal runs of entries with one prefix                   *)

Prefix(e) == base_plus_ext(e.fname).prefix

Parsable(e) == Prefix(e) # None

\* an entry with its name split: the prefix, the extension as it stands in
\* the name (raw) and the field name it is recorded under
Split(e) ==
    LET m == base_plus_ext(e.fname)
    IN  [prefix |-> m.prefix, raw |-> m.suffix, field |-> NormalizedSuffix(m.suffix),
         data |-> e.data, has_url |-> e.has_url, url |-> e.url]

\* the entries of d with a name that splits, in order, each with its split
ParsableEntries(d) ==
    LET p == SelectSeq(d, Parsable)
    IN  [k \in 1..Len(p) |-> Split(p[k])]

AllParsable(d) == \A k \in 1..Len(d) : Parsable(d[k])

\* the last index of the run of d that starts at i
RunEnd(d, i) ==
    MaxOf({j \in i..Len(d) : \A k \in i..j : d[k].prefix = d[i].prefix})

\* the first index of the run of d that holds k
RunStart(d, k) ==
    MinOf({i \in 1..k : \A m \in i..k : d[m].prefix = d[k].prefix})

\* the runs of d from index i on, as [first, last]
RECURSIVE RunsFrom(_, _)
RunsFrom(d, i) ==
    IF i > Len(d) THEN <<>>
    ELSE LET j == RunEnd(d, i)
         IN  <<[first |-> i, last |-> j]>> \o RunsFrom(d, j + 1)

Runs(d) == RunsFrom(d, 1)

\* whether the allow-list lets a field name through
Allowed(name) == suffixes = NoSuffixes \/ name \in suffixes

\* the keys the sample of run r holds before its entry k is handled
KeysBefore(d, r, k) ==
    {KEY} \cup (IF d[r.first].has_url THEN {URL} ELSE {})
          \cup {d[m].field : m \in {n \in r.first..(k - 1) : Allowed(d[n].field)}}

\* entry k of run r meets a key the sample already holds
Collides(d, r, k) == d[k].field \in KeysBefore(d, r, k)

\* no entry of d meets a key its sample already holds
CollisionFree(d) ==
    LET rs == Runs(d)
    IN  \A n \in 1..Len(rs) : \A k \in rs[n].first..rs[n].last : ~Collides(d, rs[n], k)

\* the sample of run r of d: the key, the source id of the first entry, and
\* one field per recorded entry
RunSample(d, r) ==
    LET recorded == {k \in r.first..r.last : Allowed(d[k].field)}
        names == {d[k].field : k \in recorded}
        reserved == {KEY} \cup (IF d[r.first].has_url THEN {URL} ELSE {})
    IN  [x \in reserved \cup names |->
            IF x = KEY /\ x \notin names THEN Str(d[r.first].prefix)
            ELSE IF x = URL /\ x \notin names THEN Str(d[r.first].url)
            ELSE Bytes(d[CHOOSE k \in recorded : d[k].field = x].data)]

\* the samples of all the runs of d, in order
RunSamples(d) ==
    LET rs == Runs(d)
    IN  [n \in 1..Len(rs) |-> RunSample(d, rs[n])]

HasTruthyBad(sample) == GetTruthy(sample, BAD)

NotMarkedBad(sample) == ~HasTruthyBad(sample)

\* the samples of the runs of d that are not marked bad, in order
UnmarkedRunSamples(d) == SelectSeq(RunSamples(d), NotMarkedBad)

\* the dicts the consumer was handed, as they are now
Emitted == [n \in 1..Len(out) |-> heap[out[n]]]

\* the fields of a sample: what it holds besides __key__ and __url__
Fields(sample) == (DOMAIN sample) \ {KEY, URL}

Default == lcase = TRUE /\ suffixes = NoSuffixes

\* group_by_keys has returned or raised
Over == gpc \in {"done", "error"}

-----------------------------------------------------------------------------
(* Claims about group_by_keys, under SpecDecode *)

\* the entries the for loop has pulled
Consumed == SubSeq(data, 1, pos)

\* the ids of the dicts handed to the consumer
YieldedIds == {out[n] : n \in 1..Len(out)}

\* the run that holds the last entry of d (all entries parsable, d not empty)
LastRun(d) == [first |-> RunStart(d, Len(d)), last |-> Len(d)]

EntryAJpg == Entry(Name(<<"a">>, JPG), <<"5">>, TRUE, <<"u">>)

EntryAJPG == Entry(Name(<<"a">>, <<"J", "P", "G">>), <<"6">>, TRUE, <<"u">>)

EntryACls == Entry(Name(<<"a">>, CLS), <<"7">>, TRUE, <<"v">>)

EntryBJpg == Entry(Name(<<"b">>, JPG), <<"8">>, TRUE, <<"u">>)

EntryABad == Entry(Name(<<"a">>, BAD), <<"1">>, TRUE, <<"u">>)

EntryBCls == Entry(Name(<<"b">>, CLS), <<"4">>, FALSE, <<>>)

\* C1 as stated: under the default configuration, for an entry sequence with
\* all names parsable and no repeated extension in a run, group_by_keys emits
\* exactly one sample per maximal run, in input order, with the run's prefix
\* as key and the run's extension -> payload pairs as fields.
C1_OneSamplePerRun ==
    LET d == ParsableEntries(Consumed)
    IN  (Over /\ Default /\ AllParsable(Consumed) /\ CollisionFree(d)) =>
            /\ gpc = "done"
            /\ Emitted = RunSamples(d)

\* C1 amended: under the default configuration, for an entry sequence with all
\* names parsable and no run in which an entry meets a key its sample already
\* holds, group_by_keys returns without an error and emits exactly one sample
\* per maximal run whose sample is not marked bad (no non-empty __bad__
\* field), in input order, with the run's prefix as key and the run's
\* lower-cased extension -> payload pairs as fields.
C1_OneSamplePerUnmarkedRun ==
    LET d == ParsableEntries(Consumed)
    IN  (Over /\ Default /\ AllParsable(Consumed) /\ CollisionFree(d)) =>
            /\ gpc = "done"
            /\ Emitted = UnmarkedRunSamples(d)

\* a.jpg, b.jpg, a.cls were grouped into three samples
C1_Witness ==
    /\ gpc = "done" /\ Default
    /\ data = <<EntryAJpg, EntryBJpg, EntryACls>>
    /\ Len(out) = 3
    /\ heap[out[1]][KEY] = Str(<<"a">>) /\ heap[out[3]][KEY] = Str(<<"a">>)

\* C2: when the entry pulled has the prefix of the sample in progress and its
\* normalized extension is already a key of that sample, group_by_keys raises
\* at that entry; the sample in progress is never yielded, and the samples
\* yielded before are exactly those of the complete runs before the
\* offending run.
C2_DuplicateAborts ==
    LET d == ParsableEntries(Consumed)
    IN  /\ ( /\ d # <<>>
             /\ LastRun(d).first < Len(d)
             /\ Collides(d, LastRun(d), Len(d)) )
           => (gpc = "error" /\ Parsable(data[pos]))
        /\ gpc = "error" =>
              /\ current_sample \notin YieldedIds
              /\ Emitted = UnmarkedRunSamples(SubSeq(d, 1, LastRun(d).first - 1))

\* b.jpg, a.jpg, a.jpg: the sample b was yielded, then the second a.jpg raised
C2_Witness ==
    /\ gpc = "error"
    /\ data = <<EntryBJpg, EntryAJpg, EntryAJpg>>
    /\ Len(out) = 1
    /\ heap[out[1]][KEY] = Str(<<"b">>)

\* C3: every sample emitted by group_by_keys, under any configuration, has at
\* least one field besides __key__ and __url__.
C3_EmittedNotEmpty == \A n \in 1..Len(out) : Fields(heap[out[n]]) # {}

\* C4: no emitted sample carries a truthy __bad__ field; a run whose sample
\* is marked bad is dropped without an error and the other runs' samples are
\* emitted as without it.
C4_NoBadSampleEmitted ==
    LET d == ParsableEntries(Consumed)
    IN  /\ \A n \in 1..Len(out) : ~HasTruthyBad(heap[out[n]])
        /\ (Over /\ CollisionFree(d)) =>
              /\ gpc = "done"
              /\ Emitted = UnmarkedRunSamples(d)

\* b.jpg, a.__bad__ (non-empty), b.cls: the run a was dropped, the two runs b
\* were emitted
C4_Witness ==
    /\ gpc = "done"
    /\ data = <<EntryBJpg, EntryABad, EntryBCls>>
    /\ Len(out) = 2
    /\ Fields(heap[out[1]]) = {JPG} /\ Fields(heap[out[2]]) = {CLS}

\* C9: under the default configuration an entry whose extension equals, up to
\* letter case, the extension of an earlier entry of its run raises the
\* duplicate-field error, and every key of every emitted sample is in lower
\* case.
C9_CaseFolded ==
    LET d == ParsableEntries(Consumed)
        r == LastRun(d)
    IN  Default =>
          /\ \A n \in 1..Len(out) : \A x \in DOMAIN heap[out[n]] : x = Lower(x)
          /\ ( /\ d # <<>>
               /\ \E m \in r.first..(Len(d) - 1) :
                     Lower(d[m].raw) = Lower(d[Len(d)].raw) )
             => gpc = "error"

\* a.JPG after a.jpg raised
C9_Witness ==
    /\ gpc = "error" /\ Default
    /\ data = <<EntryAJpg, EntryAJPG>>
    /\ out = <<>>

-----------------------------------------------------------------------------
(* table_to_list and WebDatasetDatasource._write_block *)

\* the set of elements of a sequence
Range(s) == {s[k] : k \in 1..Len(s)}

\* a row dict: its keys in insertion order and its values
Row(order, val) == [order |-> order, val |-> val]

\* lines 110-116: one dict per row, holding every column of the table
table_to_list(t) ==
    [i \in 1..Len(t.rows) |->
        Row(t.column_names, [name \in Range(t.column_names) |-> t.rows[i][name]])]

HexDigits == <<"1", "2", "3", "4", "5", "6", "7", "8", "9", "a", "b", "c", "d", "e", "f">>

\* one constant value for every call of uuid4
UuidConstant(n) == [i \in 1..32 |-> IF i = 13 THEN "4" ELSE IF i = 17 THEN "8" ELSE "0"]

\* uuid.uuid4().hex for the n-th call: 32 hex digits, the calls taken to give
\* pairwise different values
Uuid(n) ==
    [i \in 1..32 |-> IF i = 13 THEN "4" ELSE IF i = 17 THEN "8"
                     ELSE IF i = 32 THEN HexDigits[n] ELSE "0"]

\* the text an f-string puts for a value
Format(v) ==
    IF v.t = "NoneType" THEN <<"N", "o", "n", "e">>
    ELSE IF v.t = "bytes" THEN <<"b", "'">> \o v.v \o <<"'">>
    ELSE v.v

\* a line 149 that skips only null values
SkippedOnlyNull(k, v) == v.t = "NoneType"

\* line 149
Skipped(k, v) == v.t = "NoneType" \/ StartsWith(k, <<"_", "_">>)

\* an assert that lets every value through
TypeAcceptedAlways(v) == TRUE

\* line 151
TypeAccepted(v) == v.t = "bytes" \/ v.t = "str"

\* lines 152-153
Payload(v) == IF v.t # "bytes" THEN Utf8(v.v) ELSE v.v

\* a name built from the field alone
EntryNameWithoutKey(key, k) == k

\* line 154: the name of the archive entry
EntryName(key, k) == Format(key) \o <<".">> \o k

\* lines 154-158: the archive entry of item (k, v) of the sample with that
\* key; sample and item record which row and which of its items the entry
\* was written for
TarEntry(key, k, v, sample, item) ==
    [name |-> EntryName(key, k), size |-> Len(Payload(v)), data |-> Payload(v),
     sample |-> sample, item |-> item]

\* the columns of the tables given to _write_block: a name and the values its
\* cells take
Column(name, values) == [name |-> name, values |-> values]

KeyX == Str(<<"x">>)

KeyY == Str(<<"y">>)

KeyDotted == Str(<<"x", ".", "y">>)

B5 == Bytes(<<"5">>)

B7 == Bytes(<<"7">>)

TextE9 == Str(<<"n", "E9">>)

Int5 == IntValue(<<"5">>)

SegPng == <<"s", "e", "g", ".", "p", "n", "g">>

Schemas ==
    { <<Column(KEY, {KeyX, KeyY}), Column(JPG, {B5, NoneValue}),
        Column(CLS, {B7, TextE9, Int5})>>,
      <<Column(JPG, {B5, NoneValue}), Column(CLS, {B7, NoneValue, TextE9})>>,
      <<Column(KEY, {KeyX, KeyDotted, NoneValue}), Column(SegPng, {B5, NoneValue})>>,
      <<Column(<<"J", "P", "G">>, {B5}), Column(KEY, {KeyX, KeyY})>>,
      <<Column(KEY, {KeyX, KeyY}), Column(URL, {Str(<<"u">>)})>>,
      <<Column(<<"J", "P", "G">>, {B5, B7}), Column(URL, {Str(<<"u">>)})>>,
      <<Column(JPG, {B5}), Column(KEY, {KeyX, KeyY}), Column(URL, {Str(<<"u">>)}),
        Column(<<"a", "/", "b">>, {B7, NoneValue})>> }

ColumnNames(schema) == [c \in 1..Len(schema) |-> schema[c].name]

SchemaValues(schema) == UNION {schema[c].values : c \in 1..Len(schema)}

\* the rows a schema allows: one value per column, from the column's values
SchemaRows(schema) ==
    {r \in [Range(ColumnNames(schema)) -> SchemaValues(schema)] :
        \A c \in 1..Len(schema) : r[schema[c].name] \in schema[c].values}

\* the tables of a schema with n rows
TablesOf(schema, n) ==
    { [column_names |-> ColumnNames(schema), rows |-> rows] :
        rows \in [1..n -> SchemaRows(schema)] }

\* the path of the archive, which _read_stream attaches to every entry
ArchivePath == <<"t">>

\* lines 139-143: the rows of the block become the list samples
OpenArchive ==
    /\ epc = "called"
    /\ samples' = table_to_list(table)
    /\ si' = 0 /\ fi' = 0
    /\ epc' = "samples"
    /\ UNCHANGED <<table, stream, uuids>>
    /\ UNCHANGED <<splitVars, decodeVars>>

\* lines 144-147: the next sample; a sample without __key__ gets a uuid
NextSample ==
    /\ epc = "samples"
    /\ si < Len(samples)
    /\ si' = si + 1
    /\ fi' = 0
    /\ IF KEY \notin DOMAIN samples[si + 1].val
       THEN /\ samples' = [samples EXCEPT ![si + 1] =
                             Row(Append(@.order, KEY), DictSet(@.val, KEY, Str(Uuid(uuids + 1))))]
            /\ uuids' = uuids + 1
       ELSE UNCHANGED <<samples, uuids>>
    /\ epc' = "items"
    /\ UNCHANGED <<table, stream>>
    /\ UNCHANGED <<splitVars, decodeVars>>

\* lines 148-150: an item with a null value or a reserved name is passed over
SkipItem ==
    /\ epc = "items"
    /\ fi < Len(samples[si].order)
    /\ LET k == samples[si].order[fi + 1]
       IN  Skipped(k, samples[si].val[k])
    /\ fi' = fi + 1
    /\ UNCHANGED <<table, samples, si, stream, uuids, epc>>
    /\ UNCHANGED <<splitVars, decodeVars>>

\* lines 148-151: the assert fails on a value that is neither bytes nor str
RejectItem ==
    /\ epc = "items"
    /\ fi < Len(samples[si].order)
    /\ LET k == samples[si].order[fi + 1]
       IN  /\ ~Skipped(k, samples[si].val[k])
           /\ ~TypeAccepted(samples[si].val[k])
    /\ fi' = fi + 1
    /\ epc' = "error"
    /\ UNCHANGED <<table, samples, si, stream, uuids>>
    /\ UNCHANGED <<splitVars, decodeVars>>

\* lines 148-158: the item is written as one archive entry
WriteItem ==
    /\ epc = "items"
    /\ fi < Len(samples[si].order)
    /\ LET k == samples[si].order[fi + 1]
           v == samples[si].val[k]
       IN  /\ ~Skipped(k, v)
           /\ TypeAccepted(v)
           /\ stream' = Append(stream, TarEntry(samples[si].val[KEY], k, v, si, fi + 1))
    /\ fi' = fi + 1
    /\ UNCHANGED <<table, samples, si, uuids, epc>>
    /\ UNCHANGED <<splitVars, decodeVars>>

\* line 148: the items of the sample are exhausted
EndOfItems ==
    /\ epc = "items"
    /\ fi = Len(samples[si].order)
    /\ epc' = "samples"
    /\ UNCHANGED <<table, samples, si, fi, stream, uuids>>
    /\ UNCHANGED <<splitVars, decodeVars>>

\* lines 144 and 159: the samples are exhausted and the archive is closed
CloseArchive ==
    /\ epc = "samples"
    /\ si = Len(samples)
    /\ epc' = "closed"
    /\ UNCHANGED <<table, samples, si, fi, stream, uuids>>
    /\ UNCHANGED <<splitVars, decodeVars>>

\* lines 125-126 and 58-64: the closed archive is read back; every entry is a
\* regular file and comes with the path of the archive as __url__, and
\* group_by_keys is created over the entries with its default parameters
ReadBack ==
    /\ epc = "closed"
    /\ gpc = "idle"
    /\ data' = [k \in 1..Len(stream) |->
                  Entry(stream[k].name, SubSeq(stream[k].data, 1, stream[k].size),
                        TRUE, ArchivePath)]
    /\ live' = FALSE
    /\ lcase' = TRUE /\ suffixes' = NoSuffixes
    /\ pos' = 0 /\ heap' = <<>> /\ current_sample' = 0 /\ out' = <<>>
    /\ gpc' = "created"
    /\ UNCHANGED <<splitVars, encodeVars>>

InitCodec ==
    /\ SplitIdle /\ DecodeIdle
    /\ \E schema \in Schemas : \E n \in 0..MaxRows : table \in TablesOf(schema, n)
    /\ samples = <<>> /\ si = 0 /\ fi = 0 /\ stream = <<>> /\ uuids = 0
    /\ epc = "called"

NextCodec ==
    \/ OpenArchive
    \/ NextSample
    \/ SkipItem
    \/ RejectItem
    \/ WriteItem
    \/ EndOfItems
    \/ CloseArchive
    \/ ReadBack
    \/ Start
    \/ SkipEntry
    \/ SealAndYield
    \/ StartSample
    \/ AddField
    \/ ResumeAfterYield
    \/ EndOfInput
    \/ Finish

SpecCodec == InitCodec /\ [][NextCodec]_vars

-----------------------------------------------------------------------------
(* Claims about the encoder and the round trip, under SpecCodec *)

Reserved(name) == StartsWith(name, <<"_", "_">>)

\* the columns of the table that are fields: those without a reserved name
FieldColumns == {c \in Range(table.column_names) : ~Reserved(c)}

\* the fields of row i that hold a value
NonNullFields(i) == {c \in FieldColumns : table.rows[i][c].t # "NoneType"}

HasKeyColumn == KEY \in Range(table.column_names)

\* every row has a str key and all its fields are non-null bytes
KeyedBytesTable ==
    /\ HasKeyColumn
    /\ \A i \in 1..Len(table.rows) :
          /\ table.rows[i][KEY].t = "str"
          /\ \A c \in FieldColumns : table.rows[i][c].t = "bytes"

\* a key that base_plus_ext gives back: not empty and without a dot
PlainKey(key) == key # <<>> /\ NoChar(key, 1, Len(key), ".")

\* a field name that base_plus_ext and the default lcase give back: in lower
\* case and without a slash
PlainFieldName(name) == name = Lower(name) /\ NoChar(name, 1, Len(name), "/")

\* sample n of the decode has the key and exactly the fields of row i, with
\* the bytes written for them
SampleIsRow(n, i, key) ==
    /\ heap[out[n]][KEY] = key
    /\ Fields(heap[out[n]]) = NonNullFields(i)
    /\ \A c \in NonNullFields(i) : heap[out[n]][c] = Bytes(Payload(table.rows[i][c]))

\* C5 as stated: for every sequence of samples each having a key and non-null
\* byte-valued fields, encoding it and decoding the entries yields the same
\* sequence of samples, with the same keys, field names and contents.
C5_RoundTrip ==
    (Over /\ KeyedBytesTable) =>
        /\ gpc = "done"
        /\ Len(out) = Len(table.rows)
        /\ \A n \in 1..Len(out) : SampleIsRow(n, n, table.rows[n][KEY])

\* C5 amended: the round trip gives the same sequence of samples for every
\* sequence of samples each having a non-empty key without a dot that differs
\* from the key of the sample before it, and at least one field, all fields
\* non-null bytes under lower-case names without a slash.
C5_RoundTripOfPlainSamples ==
    ( /\ Over /\ KeyedBytesTable
      /\ FieldColumns # {}
      /\ \A c \in FieldColumns : PlainFieldName(c)
      /\ \A i \in 1..Len(table.rows) : PlainKey(table.rows[i][KEY].v)
      /\ \A i \in 2..Len(table.rows) : table.rows[i][KEY] # table.rows[i - 1][KEY] )
    =>  /\ gpc = "done"
        /\ Len(out) = Len(table.rows)
        /\ \A n \in 1..Len(out) : SampleIsRow(n, n, table.rows[n][KEY])

\* the samples x {jpg, cls} and y {jpg, cls} came back from the round trip
C5_Witness ==
    /\ gpc = "done"
    /\ table.column_names = <<KEY, JPG, CLS>>
    /\ Len(table.rows) = 2
    /\ table.rows[1] = [c \in {KEY, JPG, CLS} |-> IF c = KEY THEN KeyX ELSE IF c = JPG THEN B5 ELSE B7]
    /\ table.rows[2] = [c \in {KEY, JPG, CLS} |-> IF c = KEY THEN KeyY ELSE IF c = JPG THEN B5 ELSE B7]
    /\ Len(out) = 2
    /\ heap[out[2]][KEY] = KeyY /\ heap[out[2]][CLS] = B7

\* C6: encoding is atomic per record: when the encoder fails at a record, the
\* destination has received no entry of that record.
C6_RecordAtomic ==
    epc = "error" => \A k \in 1..Len(stream) : stream[k].sample # si

\* the claim's field: non-null, not reserved, neither bytes nor text
UnsupportedItem(k, v) ==
    /\ v.t # "NoneType" /\ ~Reserved(k)
    /\ v.t \notin {"bytes", "str"}

\* C7: the encoder raises exactly when the item it handles is a non-null,
\* non-reserved field whose value is neither bytes nor text, and once it has
\* raised the stream holds no entry for that item, for a later item of the
\* record or for a later record.
C7_TypeErrorStops ==
    /\ (epc \in {"items", "error"} /\ fi >= 1) =>
          LET k == samples[si].order[fi]
          IN  (epc = "error") <=> UnsupportedItem(k, samples[si].val[k])
    /\ epc \in {"samples", "closed"} => \A i \in 1..si :
          \A k \in DOMAIN samples[i].val : ~UnsupportedItem(k, samples[i].val[k])
    /\ epc = "error" =>
          \A e \in 1..Len(stream) :
              \/ stream[e].sample < si
              \/ stream[e].sample = si /\ stream[e].item < fi

\* the record x {jpg: bytes, cls: 5} raised at cls, after x.jpg was written
C7_Witness ==
    /\ epc = "error"
    /\ table.column_names = <<KEY, JPG, CLS>>
    /\ Len(table.rows) = 1
    /\ table.rows[1][JPG] = B5 /\ table.rows[1][CLS] = Int5
    /\ si = 1 /\ fi = 3
    /\ Len(stream) = 1

\* the rows of a table without a key column that have a field to write
RowsWithFields == {i \in 1..Len(table.rows) : NonNullFields(i) # {}}

\* the n-th smallest element of a set of numbers
RECURSIVE NthOf(_, _)
NthOf(S, n) == IF n = 1 THEN MinOf(S) ELSE NthOf(S \ {MinOf(S)}, n - 1)

\* every sample handled so far has a str key of 32 characters, the keys are
\* pairwise different and every entry is named by the key of its record
SynthesizedKeys ==
    /\ \A i \in 1..si :
          /\ KEY \in DOMAIN samples[i].val
          /\ samples[i].val[KEY].t = "str"
          /\ Len(samples[i].val[KEY].v) = 32
    /\ \A i, j \in 1..si : i # j => samples[i].val[KEY] # samples[j].val[KEY]
    /\ \A e \in 1..Len(stream) :
          \E c \in FieldColumns :
              stream[e].name = samples[stream[e].sample].val[KEY].v \o <<".">> \o c

\* C10 as stated: every record without a key gets a fresh non-empty key, all
\* its entries are written under that key, no two records share a key, and
\* the decode yields exactly one sample per record, with the record's
\* non-null fields.
C10_OneSamplePerKeylessRecord ==
    ~HasKeyColumn =>
        /\ SynthesizedKeys
        /\ Over =>
              /\ gpc = "done"
              /\ Len(out) = Len(table.rows)
              /\ \A n \in 1..Len(out) : SampleIsRow(n, n, samples[n].val[KEY])

\* C10 amended: every record without a key gets a fresh non-empty key, all
\* its entries are written under that key, no two records share a key, and,
\* the field names being in lower case and without a slash, the decode yields
\* exactly one sample per record that has a non-null field (a record with
\* none writes no entry and yields no sample), with the record's key and its
\* non-null fields as bytes.
C10_OneSamplePerKeylessRecordWithFields ==
    ~HasKeyColumn =>
        /\ SynthesizedKeys
        /\ (Over /\ \A c \in FieldColumns : PlainFieldName(c)) =>
              /\ gpc = "done"
              /\ Len(out) = Cardinality(RowsWithFields)
              /\ \A n \in 1..Len(out) :
                    SampleIsRow(n, NthOf(RowsWithFields, n),
                                samples[NthOf(RowsWithFields, n)].val[KEY])

\* two records without a key came back as two samples with different keys
C10_Witness ==
    /\ gpc = "done"
    /\ table.column_names = <<JPG, CLS>>
    /\ Len(table.rows) = 2
    /\ table.rows[1] = [c \in {JPG, CLS} |-> IF c = JPG THEN B5 ELSE TextE9]
    /\ table.rows[2] = [c \in {JPG, CLS} |-> IF c = JPG THEN NoneValue ELSE B7]
    /\ Len(out) = 2
    /\ heap[out[1]][KEY] # heap[out[2]][KEY]
    /\ heap[out[1]][CLS] = Bytes(<<"n", "C3", "A9">>)

-----------------------------------------------------------------------------
(* Further claims about group_by_keys, under SpecDecode *)

EntryUnparsable == Entry(<<"a">>, <<"9">>, TRUE, <<"u">>)

\* what group_by_keys does on the parsable entries d alone: it returns with
\* the samples of the runs not marked bad, or it raises at the first entry
\* that meets a key its sample holds, having emitted the samples of the runs
\* before
OutcomeOf(d) ==
    IF CollisionFree(d)
    THEN [pc |-> "done", emitted |-> UnmarkedRunSamples(d)]
    ELSE [pc |-> "error",
          emitted |-> UnmarkedRunSamples(SubSeq(d, 1, LastRun(d).first - 1))]

\* C11: entries whose name does not split are transparent to grouping: on
\* every entry sequence, under every configuration, group_by_keys ends with
\* the outcome (the emitted samples in order, the error or none) it has on the
\* sequence with those entries removed; an entry that does not split changes
\* nothing of the sample in progress and of what was emitted.
C11_UnparsableTransparent ==
    /\ Over =>
          /\ [pc |-> gpc, emitted |-> Emitted] = OutcomeOf(ParsableEntries(Consumed))
          /\ gpc = "error" => Parsable(data[pos])
    /\ ( /\ gpc = "loop" /\ pos > 0 /\ ~Parsable(data[pos])
         /\ pos > 1 /\ Parsable(data[pos - 1]) )
       => /\ current_sample # 0
          /\ heap[current_sample][KEY].v = Prefix(data[pos - 1])

\* a.jpg, a (no extension), a.cls: one sample a with the fields jpg and cls
C11_Witness ==
    /\ gpc = "done"
    /\ data = <<EntryAJpg, EntryUnparsable, EntryACls>>
    /\ Len(out) = 1
    /\ Fields(heap[out[1]]) = {JPG, CLS}

-----------------------------------------------------------------------------
(* Further claims about base_plus_ext, under SpecSplit *)

\* where the last directory component of s starts: after the slash before the
\* last slash, or at 1 (s has a slash)
LastDirStart(s) ==
    LET before == {k \in 1..(FinalSegmentStart(s) - 2) : s[k] = "/"}
    IN  IF before = {} THEN 1 ELSE 1 + MaxOf(before)

\* s has a directory part whose last component holds no dot
LastDirDotFree(s) ==
    /\ FinalSegmentStart(s) > 1
    /\ NoChar(s, LastDirStart(s), FinalSegmentStart(s) - 1, ".")

\* C12 as stated: base_plus_ext returns (None, None) if and only if the final
\* path segment of the name contains no dot.
C12_AbsentIffNoDot ==
    match # NotCalled => (match = NoMatch <=> FinalSegmentDots(path) = {})

\* C12 amended: base_plus_ext returns (None, None) for every name whose final
\* path segment contains no dot; a name without a newline is split if and
\* only if its final segment contains a dot and either does not start with
\* one, or follows a directory part whose last component holds no dot.
C12_AbsentCharacterized ==
    match # NotCalled =>
        /\ FinalSegmentDots(path) = {} => match = NoMatch
        /\ NoChar(path, 1, Len(path), "\n") =>
              ( match # NoMatch <=>
                   /\ FinalSegmentDots(path) # {}
                   /\ \/ MinOf(FinalSegmentDots(path)) > FinalSegmentStart(path)
                      \/ LastDirDotFree(path) )

\* the name .a was not split, although its final segment holds a dot
C12_Witness ==
    /\ path = <<".", "a">>
    /\ match = NoMatch

\* C19: whenever base_plus_ext splits a name, prefix + "." + extension is the
\* name, the extension holds no slash and the prefix is not empty.
C19_SplitLosesNothing ==
    match \notin {NotCalled, NoMatch} =>
        /\ match.prefix \o <<".">> \o match.suffix = path
        /\ NoChar(match.suffix, 1, Len(match.suffix), "/")
        /\ match.prefix # <<>>

\* the name b/.a.c was split into b/ and a.c
C19_Witness ==
    /\ path = <<"b", "/", ".", "a", ".">>
    /\ match = [prefix |-> <<"b", "/">>, suffix |-> <<"a", ".">>]


\* the generator is suspended: it was created and not started, or it stands at
\* a yield, or it is over
Suspended == gpc \in {"created", "yield92", "yield103", "done", "error"}

\* the dicts created and neither handed to the consumer nor dropped as invalid
InProgress ==
    {id \in 1..Len(heap) : id \notin YieldedIds /\ valid_sample(Deref(heap, id))}

\* what holds when the generator stands at the yield of line 92: the entry
\* pulled last is the first parsable entry of the next run, and the sample
\* handed over is the sample of the run before it
LookAheadOfOne ==
    LET d == ParsableEntries(SubSeq(data, 1, pos - 1))
        e == data[pos]
    IN  /\ pos = Len(data)
        /\ Parsable(e)
        /\ d # <<>>
        /\ Prefix(e) # d[Len(d)].prefix
        /\ heap[out[Len(out)]] = RunSample(d, LastRun(d))
        /\ current_sample = out[Len(out)]

\* what holds when the generator stands at the yield of line 103: upstream is
\* exhausted and the sample handed over is the sample of the last run
LastRunAtEnd ==
    LET d == ParsableEntries(Consumed)
    IN  /\ pos = Len(data)
        /\ d # <<>>
        /\ heap[out[Len(out)]] = RunSample(d, LastRun(d))

C13_StateInvariant ==
    /\ gpc = "created" => (pos = 0 /\ heap = <<>> /\ out = <<>>)
    /\ gpc = "yield92" => LookAheadOfOne
    /\ gpc = "yield103" => LastRunAtEnd
    /\ InProgress \subseteq {current_sample}

\* C13: group_by_keys pulls entries from upstream only while it runs for a
\* request of the consumer, and it is suspended the moment it hands over a
\* sample; when it hands over the sample of a run it has pulled exactly the
\* entries up to and including the first parsable entry of the next run (one
\* entry of look-ahead; all entries when upstream is exhausted); and at every
\* point at most one sample is in progress.
C13_PullBasedLaziness ==
    /\ []C13_StateInvariant
    /\ [][ /\ Suspended => (pos' = pos /\ data' = data /\ out' = out)
           /\ out' # out => ( /\ gpc' \in {"yield92", "yield103"}
                              /\ Len(out') = Len(out) + 1
                              /\ pos' <= pos + 1 ) ]_vars

\* a.jpg, then b.jpg: the sample a is handed over with exactly two entries
\* pulled, and upstream may still deliver more
C13_Witness ==
    /\ gpc = "yield92"
    /\ data = <<EntryAJpg, EntryBJpg>>
    /\ pos = 2
    /\ Len(out) = 1
    /\ heap[out[1]][KEY] = Str(<<"a">>)

-----------------------------------------------------------------------------
(* Further claims about _write_block, under SpecCodec *)

\* the records _write_block has gone through without an error
ProcessedRecords ==
    {i \in 1..Len(samples) : i < si \/ (i = si /\ epc \in {"samples", "closed"})}

\* the fields of record i of the table that the claim expects to be written,
\* in column order: those with a value and a name that does not start with
\* the double underscore
WritableFields(i) ==
    LET cols == table.column_names
        items == [c \in 1..Len(cols) |-> [k |-> cols[c], v |-> table.rows[i][cols[c]]]]
        Kept(it) == it.v # NoneValue /\ ~StartsWith(it.k, <<"_", "_">>)
    IN  SelectSeq(items, Kept)

\* the archive entries expected for record i: name, size and payload
ExpectedEntries(i) ==
    LET w == WritableFields(i)
        bytes(v) == IF v.t = "str" THEN Utf8(v.v) ELSE v.v
    IN  [n \in 1..Len(w) |->
            [name |-> Format(samples[i].val[KEY]) \o <<".">> \o w[n].k,
             size |-> Len(bytes(w[n].v)),
             data |-> bytes(w[n].v)]]

\* the archive entries written for record i: name, size and payload
WrittenEntries(i) ==
    LET Mine(e) == e.sample = i
        w == SelectSeq(stream, Mine)
    IN  [n \in 1..Len(w) |-> [name |-> w[n].name, size |-> w[n].size, data |-> w[n].data]]

\* C14: for every record the encoder has processed without an error, the
\* archive holds exactly one entry per field of the record that is not null
\* and whose name does not start with the double underscore, named
\* key.fieldName, with the field's bytes (text encoded as UTF-8) as payload and
\* the payload's length as size; null and reserved fields give no entry; the
\* entries of a record are contiguous and the records come in input order.
C14_OneEntryPerField ==
    /\ \A i \in ProcessedRecords : WrittenEntries(i) = ExpectedEntries(i)
    /\ \A a \in 1..Len(stream) : \A b \in a..Len(stream) :
          stream[a].sample <= stream[b].sample
    /\ \A a \in 1..Len(stream) :
          /\ ~StartsWith(samples[stream[a].sample].order[stream[a].item], <<"_", "_">>)
          /\ samples[stream[a].sample].val[samples[stream[a].sample].order[stream[a].item]]
                # NoneValue

\* the table with the rows (x, b"5", text) and (y, null, b"7") was written as
\* x.jpg, x.cls (the text in UTF-8, three bytes) and y.cls
C14_Witness ==
    /\ epc = "closed"
    /\ table.column_names = <<KEY, JPG, CLS>>
    /\ Len(table.rows) = 2
    /\ table.rows[1][CLS] = TextE9
    /\ table.rows[2][JPG] = NoneValue
    /\ [k \in 1..Len(stream) |-> <<stream[k].name, stream[k].size, stream[k].data>>]
         = << <<Name(<<"x">>, JPG), 1, <<"5">> >>,
              <<Name(<<"x">>, CLS), 3, <<"n", "C3", "A9">> >>,
              <<Name(<<"y">>, CLS), 1, <<"7">> >> >>

-----------------------------------------------------------------------------
(* Further claims about group_by_keys, under SpecDecode: source ids,       *)
(* the allow-list, sealing and the duplicate-field error                   *)

EntryAJpgNoUrl == Entry(Name(<<"a">>, JPG), <<"5">>, FALSE, <<>>)

EntryAUrlNoUrl == Entry(Name(<<"a">>, URL), <<"3">>, FALSE, <<>>)

EntryAKey == Entry(Name(<<"a">>, KEY), <<"2">>, TRUE, <<"u">>)

\* the runs of d whose sample is not marked bad, in order
UnmarkedRuns(d) ==
    LET Unmarked(r) == NotMarkedBad(RunSample(d, r))
    IN  SelectSeq(Runs(d), Unmarked)

\* the first entry of the run that the n-th emitted sample was made from
FirstEntryOfEmitted(n) ==
    LET d == ParsableEntries(Consumed)
    IN  d[UnmarkedRuns(d)[n].first]

\* C15: the __url__ of every emitted sample is the __url__ of the first
\* parsable entry of its run, and a sample has no __url__ exactly when that
\* first entry carried none; later entries of the run never change it.
C15_SourceIdOfFirstEntry ==
    \A n \in 1..Len(out) :
        LET first == FirstEntryOfEmitted(n)
            sample == heap[out[n]]
        IN  /\ heap[out[n]][KEY] = Str(first.prefix)
            /\ (URL \in DOMAIN sample) <=> first.has_url
            /\ first.has_url => sample[URL] = Str(first.url)


\* the entries of run r of d recorded under the name __url__
UrlEntries(d, r) == {k \in r.first..r.last : d[k].field = URL /\ Allowed(URL)}

\* C15 amended: the dict of every run (emitted or not) has, from its creation
\* on, the __key__ of the run's prefix; when the first parsable entry of the
\* run carried a __url__, the sample's __url__ is that one and no later entry
\* changes it; when it carried none, the sample has a __url__ only if an entry
\* of the run with the extension __url__ was recorded, and it is then the
\* payload of the first such entry.
C15_SourceIdOfFirstEntryUnlessInBand ==
    LET d == ParsableEntries(Consumed)
        rs == Runs(d)
    IN  /\ Len(heap) = Len(rs) - (IF gpc = "yield92" THEN 1 ELSE 0)
        /\ \A id \in 1..Len(heap) :
              LET r == rs[id]
                  first == d[r.first]
                  sample == heap[id]
              IN  /\ sample[KEY] = Str(first.prefix)
                  /\ first.has_url =>
                        (URL \in DOMAIN sample /\ sample[URL] = Str(first.url))
                  /\ ~first.has_url =>
                        /\ (URL \in DOMAIN sample) <=> UrlEntries(d, r) # {}
                        /\ UrlEntries(d, r) # {} =>
                              sample[URL] = Bytes(d[MinOf(UrlEntries(d, r))].data)

\* a.jpg (source u), a.cls (source v): the emitted sample has the source u
C15_Witness ==
    /\ gpc = "done"
    /\ data = <<EntryAJpg, EntryACls>>
    /\ Len(out) = 1
    /\ heap[out[1]][URL] = Str(<<"u">>)
    /\ Fields(heap[out[1]]) = {JPG, CLS}


\* the field name of the entry pulled last (its name splits)
LastField == NormalizedSuffix(base_plus_ext(data[pos].fname).suffix)

\* C16 as stated: with an allow-list, every field (other than __key__ and
\* __url__) of every emitted sample is in the allow-list, and an entry whose
\* extension is not in the allow-list is dropped without an error.
C16_AllowListSilent ==
    suffixes # NoSuffixes =>
        /\ \A n \in 1..Len(out) : Fields(heap[out[n]]) \subseteq suffixes
        /\ gpc = "error" => LastField \in suffixes

\* C16 amended: with an allow-list, every field (other than __key__ and
\* __url__) of every sample, emitted or in progress, is in the allow-list, and
\* an entry whose extension is not in the allow-list is dropped without an
\* error unless its extension is the name of a reserved attribute the sample
\* holds (__key__, or __url__ when the first entry of the run carried one), in
\* which case the duplicate-field error is raised.
C16_AllowListSilentUnlessReserved ==
    suffixes # NoSuffixes =>
        /\ \A id \in 1..Len(heap) : Fields(heap[id]) \subseteq suffixes
        /\ (gpc = "error" /\ LastField \notin suffixes) =>
              LastField \in {KEY, URL} \cap DOMAIN heap[current_sample]
        /\ ( /\ gpc \in {"loop", "error"} /\ pos > 0 /\ Parsable(data[pos])
             /\ LastField \notin suffixes
             /\ LastField \notin {KEY, URL} )
           => (gpc = "loop" /\ LastField \notin DOMAIN heap[current_sample])

\* with the allow-list {jpg}: a.jpg, a.cls gave one sample with the field jpg
C16_Witness ==
    /\ gpc = "done"
    /\ suffixes = {JPG}
    /\ data = <<EntryAJpg, EntryACls>>
    /\ Len(out) = 1
    /\ Fields(heap[out[1]]) = {JPG}


\* the cursor of the run whose dict has the id: no entry of the run was met
\* yet, the run's sample is being filled, or the sample was handed over or
\* dropped
CursorState(id) ==
    IF id > Len(heap) THEN "AWAITING_FIRST_ENTRY"
    ELSE IF id = current_sample /\ id \notin YieldedIds /\ gpc # "done"
         THEN "ACCUMULATING"
         ELSE "SEALED"

CursorMoves ==
    { <<"AWAITING_FIRST_ENTRY", "AWAITING_FIRST_ENTRY">>,
      <<"AWAITING_FIRST_ENTRY", "ACCUMULATING">>,
      <<"ACCUMULATING", "ACCUMULATING">>,
      <<"ACCUMULATING", "SEALED">>,
      <<"SEALED", "SEALED">> }

\* C17: once group_by_keys has emitted a sample, no later step (no later
\* entry, also one with the same prefix) adds, removes or changes a field of
\* it, and the generator never fills an emitted sample; per run the cursor
\* moves only AWAITING_FIRST_ENTRY -> ACCUMULATING -> SEALED, and a sealed
\* sample stays as it is.
C17_SealedAtEmission ==
    /\ [](gpc = "loop" => current_sample \notin YieldedIds)
    /\ [][ /\ \A n \in 1..Len(out) : out'[n] = out[n] /\ heap'[out[n]] = heap[out[n]]
           /\ \A id \in 1..(MaxEntries + 1) :
                 /\ <<CursorState(id), CursorState(id)'>> \in CursorMoves
                 /\ CursorState(id) = "SEALED" => heap'[id] = heap[id] ]_vars

\* a.jpg, b.jpg, a.cls: when a.cls has been taken in, the sample a emitted
\* first still has the field jpg alone
C17_Witness ==
    /\ gpc = "loop"
    /\ data = <<EntryAJpg, EntryBJpg, EntryACls>>
    /\ pos = 3
    /\ Len(out) = 2
    /\ current_sample = 3
    /\ Fields(heap[out[1]]) = {JPG}
    /\ Fields(heap[current_sample]) = {CLS}


\* no two entries of one run of d have the same field name
PairwiseDistinct(d) ==
    LET rs == Runs(d)
    IN  \A n \in 1..Len(rs) : \A k \in rs[n].first..rs[n].last :
            \A m \in (k + 1)..rs[n].last : d[k].field # d[m].field

\* no entry of d has the name of a reserved attribute as its field name
NoReservedExtension(d) == \A k \in 1..Len(d) : d[k].field \notin {KEY, URL}

\* C18 as stated: group_by_keys raises the duplicate-field error only when
\* two entries of the same run have the same normalized extension; a run
\* whose entries have pairwise distinct extensions never fails, whatever the
\* extensions are.
C18_DuplicateOnlyForDuplicates ==
    LET d == ParsableEntries(Consumed)
    IN  /\ gpc = "error" =>
              \E m \in LastRun(d).first..(Len(d) - 1) : d[m].field = d[Len(d)].field
        /\ (Over /\ PairwiseDistinct(d)) => gpc = "done"

\* C18 amended: group_by_keys raises the duplicate-field error only when the
\* normalized extension of the entry is a key the sample in progress holds:
\* the extension of an earlier entry of the run that was recorded, or the name
\* of a reserved attribute (__key__, or __url__ when the first entry of the
\* run carried one); sequences whose runs have pairwise distinct extensions,
\* none of them __key__ or __url__, never fail.
C18_DuplicateOnlyForHeldKey ==
    LET d == ParsableEntries(Consumed)
    IN  /\ gpc = "error" =>
              LET r == LastRun(d)
                  last == d[Len(d)]
              IN  \/ last.field = KEY
                  \/ last.field = URL /\ d[r.first].has_url
                  \/ \E m \in r.first..(Len(d) - 1) :
                        d[m].field = last.field /\ Allowed(last.field)
        /\ (Over /\ PairwiseDistinct(d) /\ NoReservedExtension(d)) => gpc = "done"

\* a.jpg, a.cls, b.jpg: no extension occurs twice in a run, nothing was
\* raised and the samples a and b were emitted
C18_Witness ==
    /\ gpc = "done"
    /\ data = <<EntryAJpg, EntryACls, EntryBJpg>>
    /\ Len(out) = 2
    /\ Fields(heap[out[1]]) = {JPG, CLS}

=============================================================================
